---- MODULE Spec2Model ----
(***************************************************************************)
(* A model of symedia's `process` pipeline (src/main.go, src/util.go):     *)
(* WalkPath's visit callback, the two extractors ReadImage and ReadVideo,  *)
(* the path derivation ConstructPath / ConstructFilename and the hard-link *)
(* placement.                                                              *)
(*                                                                         *)
(* File names are sequences of one-character strings (so that the regular  *)
(* expressions and filepath.Ext can look at single characters); every      *)
(* derived text (directory, file name, link) is a string.                  *)
(* A time.Time is [day, sec, off]: day = days since 0001-01-01 (UTC),      *)
(* sec = second of that UTC day, off = offset of its zone in minutes.      *)
(***************************************************************************)
EXTENDS Integers, Sequences, FiniteSets, TLC

VARIABLES
    root,      \* what Lstat / ReadDir of inDir do: "ok", "nolstat", "noread"
    tree,      \* the non-root entries of inDir, in filepath.Walk's order
    local,     \* time.Local as a fixed offset in minutes
    pc,        \* "walk", "returned", "panic" (WalkPath) or "arg", "res"
    pos,       \* number of entries of tree handed to visit so far
    files,     \* WalkPath's files
    out,       \* what WalkPath printed to stdout
    walkErr,   \* the error filepath.Walk returns ("" = nil)
    dirs,      \* directories that exist under outDir
    links,     \* hard links under outDir: relative path -> Origin
    denied,    \* directories os.MkdirAll was refused
    calls,     \* extractor, deriver and filesystem calls of this run
    run,       \* 1 = first WalkPath over the tree, 2 = second
    files1,    \* the inventory the first run returned
    dest1,     \* [dirs, links] as the first run left them
    arg,       \* input of the pure function under check
    res,       \* its result
    source,    \* the entries under inDir: path, kind and content
    errlog,    \* the lines cmdProcess wrote to stderr
    cmd        \* what cmdProcess wrote and returned, and the exit code

vars == <<root, tree, local, pc, pos, files, out, walkErr, dirs, links,
          denied, calls, run, files1, dest1, arg, res, source, errlog, cmd>>

-----------------------------------------------------------------------------
(* Bounds *)

\* entries under the source root
MaxFiles == 2
\* streams in a probe report
MaxStreams == 2
\* pieces a file name is put together from
MaxPieces == 3

-----------------------------------------------------------------------------
(* FlagType, src/main.go:31-74 *)

FlagUnknown == 1
FlagError == 2
FlagSkipped == 3
FlagExists == 4
FlagImage == 5
FlagVideo == 6

flagTypeValues == <<"?", "X", ".", "-", "i", "v">>

FlagString(t) ==
    IF t <= 0 \/ t >= Len(flagTypeValues) + 1 THEN "" ELSE flagTypeValues[t]

\* mutant: the files without a known type are left out of the report
IsLoggableNoUnknown(t) == t = FlagError \/ t = FlagSkipped

IsLoggable(t) == t = FlagUnknown \/ t = FlagError \/ t = FlagSkipped

\* mutant: the flag is marshalled as the integer it is
MarshalJSONNumber(t) == ToString(t)

MarshalJSON(t) == "\"" \o FlagString(t) \o "\""

\* the sentinel errors of src/main.go:230-237; "" is nil
ErrSkipFile == "skip this file"
ErrNoPath == "no path"

-----------------------------------------------------------------------------
(* Text *)

RECURSIVE Str(_)
Str(s) == IF s = <<>> THEN "" ELSE Head(s) \o Str(Tail(s))

Upper == [c \in {"J", "P", "E", "G", "M", "O", "V", "T", "X"} |->
            CASE c = "J" -> "j" [] c = "P" -> "p" [] c = "E" -> "e"
              [] c = "G" -> "g" [] c = "M" -> "m" [] c = "O" -> "o"
              [] c = "V" -> "v" [] c = "T" -> "t" [] c = "X" -> "x"]

\* strings.ToLower
ToLower(s) == [i \in 1..Len(s) |-> IF s[i] \in DOMAIN Upper THEN Upper[s[i]] ELSE s[i]]

HasAt(s, i, w) == i + Len(w) - 1 <= Len(s) /\ SubSeq(s, i, i + Len(w) - 1) = w

\* mutant: the word may stand at the very start (a plain containment test)
MatchWordsAnywhere(s, words) ==
    \E i \in 1..Len(s) : \E w \in words : HasAt(ToLower(s), i, w)

\* regexp (?i).(w1|w2|...): any one character except newline, then a word
MatchDotWords(s, words) ==
    \E i \in 2..Len(s) : s[i - 1] # "\n" /\ \E w \in words : HasAt(ToLower(s), i, w)

ImgWords == {<<"j", "p", "g">>, <<"j", "p", "e", "g">>}
VidWords == {<<"m", "o", "v">>, <<"m", "p", "4">>, <<"m", "4", "v">>}

ImgMatch(name) == MatchDotWords(name, ImgWords)
VidMatch(name) == MatchDotWords(name, VidWords)

LastDot(name) ==
    IF \E i \in 1..Len(name) : name[i] = "."
    THEN CHOOSE i \in 1..Len(name) :
            name[i] = "." /\ \A j \in (i + 1)..Len(name) : name[j] # "."
    ELSE 0

\* filepath.Ext: from the last dot on, "" without a dot
FilepathExt(name) ==
    IF LastDot(name) = 0 THEN <<>> ELSE SubSeq(name, LastDot(name), Len(name))

\* filepath.Ext(f.Name())[1:] panics on the empty string
ExtPanics(name) == FilepathExt(name) = <<>>

FileExt(name) == Str(ToLower(Tail(FilepathExt(name))))

-----------------------------------------------------------------------------
(* time.Time *)

DaySecs == 24 * 3600

ZeroTime == [day |-> 0, sec |-> 0, off |-> 0]

IsZero(tm) == tm.day = 0 /\ tm.sec = 0

IsLeap(y) == y % 4 = 0 /\ (y % 100 # 0 \/ y % 400 = 0)

DaysIn(y, m) ==
    IF m = 2 THEN (IF IsLeap(y) THEN 29 ELSE 28)
    ELSE IF m \in {4, 6, 9, 11} THEN 30 ELSE 31

\* days from 0001-01-01 to y-m-d in the proleptic Gregorian calendar
DaysFromCivil(y, m, d) ==
    LET yy == IF m <= 2 THEN y - 1 ELSE y
        era == yy \div 400
        yoe == yy - era * 400
        mp == IF m > 2 THEN m - 3 ELSE m + 9
        doy == (153 * mp + 2) \div 5 + d - 1
        doe == yoe * 365 + yoe \div 4 - yoe \div 100 + doy
    IN era * 146097 + doe - 306

CivilFromDays(day) ==
    LET z == day + 306
        era == z \div 146097
        doe == z - era * 146097
        yoe == (doe - doe \div 1460 + doe \div 36524 - doe \div 146096) \div 365
        doy == doe - (365 * yoe + yoe \div 4 - yoe \div 100)
        mp == (5 * doy + 2) \div 153
        d == doy - (153 * mp + 2) \div 5 + 1
        m == IF mp < 10 THEN mp + 3 ELSE mp - 9
        y == yoe + era * 400 + (IF m <= 2 THEN 1 ELSE 0)
    IN [year |-> y, month |-> m, day |-> d]

\* the wall clock of tm in its own zone
Wall(tm) ==
    LET s == tm.sec + tm.off * 60
        c == CivilFromDays(tm.day + s \div DaySecs)
        w == s % DaySecs
    IN [year |-> c.year, month |-> c.month, day |-> c.day,
        hour |-> w \div 3600, minute |-> (w % 3600) \div 60, second |-> w % 60]

\* the instant whose wall clock in the zone of offset off is y-m-d h:mi:s
Date(y, m, d, h, mi, s, off) ==
    LET t == h * 3600 + mi * 60 + s - off * 60
    IN [day |-> DaysFromCivil(y, m, d) + t \div DaySecs, sec |-> t % DaySecs,
        off |-> off]

\* Time.In of a fixed-offset location: same instant, other zone
In(tm, off) == [tm EXCEPT !.off = off]

Digit == <<"0", "1", "2", "3", "4", "5", "6", "7", "8", "9">>

Pad2(n) == Digit[((n \div 10) % 10) + 1] \o Digit[(n % 10) + 1]

Pad4(n) == Pad2(n \div 100) \o Pad2(n % 100)

MonthAbbrev == <<"Jan", "Feb", "Mar", "Apr", "May", "Jun",
                 "Jul", "Aug", "Sep", "Oct", "Nov", "Dec">>

\* Time.Format("-0700")
FormatOffset(off) ==
    IF off < 0 THEN "-" \o Pad2((0 - off) \div 60) \o Pad2((0 - off) % 60)
    ELSE "+" \o Pad2(off \div 60) \o Pad2(off % 60)

\* mutant: the directory is that of the UTC day of the instant
ConstructPathOfInstant(tm) ==
    LET w == Wall(In(tm, 0))
    IN ToString(w.year) \o "/" \o Pad2(w.month) \o "-" \o MonthAbbrev[w.month]
         \o "/" \o Pad4(w.year) \o "-" \o Pad2(w.month) \o "-" \o Pad2(w.day)

\* mutant: no directory is derived
ConstructPathOfNothing(tm) == ""

\* path.Join(strconv.Itoa(tm.Year()), tm.Format("01-Jan"), tm.Format("2006-01-02"))
ConstructPath(tm) ==
    LET w == Wall(tm)
    IN ToString(w.year) \o "/" \o Pad2(w.month) \o "-" \o MonthAbbrev[w.month]
         \o "/" \o Pad4(w.year) \o "-" \o Pad2(w.month) \o "-" \o Pad2(w.day)

\* tm.Format("2006-01-02 15.04.05 -0700")
ConstructFilename(tm) ==
    LET w == Wall(tm)
    IN Pad4(w.year) \o "-" \o Pad2(w.month) \o "-" \o Pad2(w.day) \o " "
         \o Pad2(w.hour) \o "." \o Pad2(w.minute) \o "." \o Pad2(w.second)
         \o " " \o FormatOffset(tm.off)

Pad2Chars(n) == <<Digit[((n \div 10) % 10) + 1], Digit[(n % 10) + 1]>>

Pad4Chars(n) == Pad2Chars(n \div 100) \o Pad2Chars(n % 100)

FormatOffsetChars(off) ==
    IF off < 0 THEN <<"-">> \o Pad2Chars((0 - off) \div 60) \o Pad2Chars((0 - off) % 60)
    ELSE <<"+">> \o Pad2Chars(off \div 60) \o Pad2Chars(off % 60)

\* mutant: the layout "05.04.15", seconds first
FilenameCharsSecondsFirst(tm) ==
    LET w == Wall(tm)
    IN Pad4Chars(w.year) \o <<"-">> \o Pad2Chars(w.month) \o <<"-">> \o Pad2Chars(w.day)
         \o <<" ">> \o Pad2Chars(w.second) \o <<".">> \o Pad2Chars(w.minute) \o <<".">>
         \o Pad2Chars(w.hour) \o <<" ">> \o FormatOffsetChars(tm.off)

\* the bytes of tm.Format("2006-01-02 15.04.05 -0700"), one by one
FilenameChars(tm) ==
    LET w == Wall(tm)
    IN Pad4Chars(w.year) \o <<"-">> \o Pad2Chars(w.month) \o <<"-">> \o Pad2Chars(w.day)
         \o <<" ">> \o Pad2Chars(w.hour) \o <<".">> \o Pad2Chars(w.minute) \o <<".">>
         \o Pad2Chars(w.second) \o <<" ">> \o FormatOffsetChars(tm.off)

-----------------------------------------------------------------------------
(* FileMeta and the extractors *)

NoMeta == [Width |-> 0, Height |-> 0, Time |-> ZeroTime]

\* An image file as ReadImage sees it:
\*   open    os.Open succeeds
\*   exif    exif.Decode succeeds
\*   hasX, hasY, x, y   the PixelXDimension / PixelYDimension tags
\*   dt      what x.DateTime() returns: [tm, err]
\*   cfg     what image.DecodeConfig returns: [ok, w, h]
ReadImageBody(img) ==
    IF ~img.exif
    THEN [meta |-> NoMeta, err |-> ErrSkipFile]
    ELSE LET width == IF img.hasX /\ img.hasY THEN img.x ELSE 0
             height == IF img.hasX /\ img.hasY THEN img.y ELSE 0
             m == [Width |-> width, Height |-> height, Time |-> ZeroTime]
         IN IF img.dt.err # "" \/ IsZero(img.dt.tm)
            THEN [meta |-> m, err |-> ErrSkipFile]
            ELSE [meta |-> [m EXCEPT !.Time = img.dt.tm], err |-> ""]

\* the deferred "alt dimensions" of ReadImage
AltDimensions(img, r) ==
    IF (r.meta.Width = 0 \/ r.meta.Height = 0) /\ img.cfg.ok
    THEN [r EXCEPT !.meta.Width = img.cfg.w, !.meta.Height = img.cfg.h]
    ELSE r

\* mutant: a file that cannot be opened is declined like one without EXIF
ReadImageOpenSkips(img) ==
    IF ~img.open
    THEN [meta |-> NoMeta, err |-> ErrSkipFile]
    ELSE AltDimensions(img, ReadImageBody(img))

ReadImage(img) ==
    IF ~img.open
    THEN [meta |-> NoMeta, err |-> "open"]
    ELSE AltDimensions(img, ReadImageBody(img))

\* A tag value of the probe report is the text's shape and what it spells:
\*   fmt  ""       the tag is absent (the empty string)
\*        "tz"     2016-07-18T12:29:35+1000
\*        "utcz"   2016-07-18T02:29:36.000000Z
\*        "space"  2016-07-18 02:29:36
\*        "junk"   anything else
\*   w    the calendar fields it spells, off the offset it spells (minutes)
NoTag == [fmt |-> "", w |-> Wall(ZeroTime), off |-> 0]

ValidClock(w) ==
    /\ w.year \in 0..9999 /\ w.month \in 1..12
    /\ w.day \in 1..DaysIn(w.year, w.month)
    /\ w.hour \in 0..23 /\ w.minute \in 0..59 /\ w.second \in 0..59

\* time.Parse(layout, value): [tm, err]; a failed parse returns the zero time
TimeParse(layout, tag) ==
    IF tag.fmt = layout /\ ValidClock(tag.w)
    THEN [tm |-> Date(tag.w.year, tag.w.month, tag.w.day, tag.w.hour,
                      tag.w.minute, tag.w.second,
                      IF layout = "tz" THEN tag.off ELSE 0),
          err |-> ""]
    ELSE [tm |-> ZeroTime, err |-> "parse"]

\* the text shape each layout constant accepts
localDateLayout == "utcz"
tzDateLayout == "tz"

\* mutant: the loop has no break, the last matching stream wins
RECURSIVE StreamDimensionsNoBreak(_)
StreamDimensionsNoBreak(streams) ==
    IF streams = <<>> THEN [Width |-> 0, Height |-> 0]
    ELSE LET st == Head(streams)
             rest == StreamDimensionsNoBreak(Tail(streams))
         IN IF rest.Width = 0 /\ st.Width # 0 /\ st.Height # 0 /\ st.CodecType = "video"
            THEN [Width |-> st.Width, Height |-> st.Height]
            ELSE rest

\* for _, stream := range probe.Streams { first with both dimensions and "video" }
RECURSIVE StreamDimensions(_)
StreamDimensions(streams) ==
    IF streams = <<>> THEN [Width |-> 0, Height |-> 0]
    ELSE LET st == Head(streams)
         IN IF st.Width # 0 /\ st.Height # 0 /\ st.CodecType = "video"
            THEN [Width |-> st.Width, Height |-> st.Height]
            ELSE StreamDimensions(Tail(streams))

\* for _, stream := range probe.Streams { tm, _err = Parse(...); break on success }
RECURSIVE StreamTimes(_, _)
StreamTimes(streams, prev) ==
    IF streams = <<>> THEN prev
    ELSE LET p == TimeParse(localDateLayout, Head(streams).CreationTime)
         IN IF p.err = "" THEN p ELSE StreamTimes(Tail(streams), p)

\* mutant: the container's creation_time is tried before the vendor date
ResolveTimeContainerFirst(probe, loc) ==
    LET ct == TimeParse(localDateLayout, probe.CreationTime)
    IN IF ct.err = "" THEN [ct EXCEPT !.tm = In(ct.tm, loc)]
       ELSE LET qt == TimeParse(tzDateLayout, probe.QtCreationDate)
            IN IF qt.err = "" THEN qt
               ELSE LET p == StreamTimes(probe.Streams, ct)
                    IN IF p.err = "" THEN [p EXCEPT !.tm = In(p.tm, loc)] ELSE p

\* time.ParseInLocation(layout, value, time.Local) in place of Parse and In
InLocation(tm, loc) ==
    LET w == Wall(tm)
    IN Date(w.year, w.month, w.day, w.hour, w.minute, w.second, loc)

\* mutant: the creation_time tags are read as wall clocks of the local zone
ResolveTimeNaiveLocal(probe, loc) ==
    LET qt == TimeParse(tzDateLayout, probe.QtCreationDate)
    IN IF qt.err = "" THEN qt
       ELSE LET ct == TimeParse(localDateLayout, probe.CreationTime)
                p == IF ct.err = "" THEN ct ELSE StreamTimes(probe.Streams, ct)
            IN IF p.err = "" THEN [p EXCEPT !.tm = InLocation(p.tm, loc)] ELSE p

\* lines 557-575: the fallback chain, [tm, err]
ResolveTime(probe, loc) ==
    LET qt == TimeParse(tzDateLayout, probe.QtCreationDate)
    IN IF qt.err = "" THEN qt
       ELSE LET ct == TimeParse(localDateLayout, probe.CreationTime)
                p == IF ct.err = "" THEN ct ELSE StreamTimes(probe.Streams, ct)
            IN IF p.err = "" THEN [p EXCEPT !.tm = In(p.tm, loc)] ELSE p

\* what the named result err still holds after line 545: io.EOF is let through
DecodeErr(probe) == IF probe.decode = "eof" THEN "EOF" ELSE ""

\* mutant: io.EOF from the decoder is returned like any other decode error
ReadVideoEofIsError(probe, loc) ==
    IF ~probe.exec THEN [meta |-> NoMeta, err |-> "exec"]
    ELSE IF probe.decode # "ok" THEN [meta |-> NoMeta, err |-> "json"]
    ELSE LET dim == StreamDimensions(probe.Streams)
             m == [Width |-> dim.Width, Height |-> dim.Height, Time |-> ZeroTime]
             t == ResolveTime(probe, loc)
         IN IF t.err # "" \/ IsZero(t.tm)
            THEN [meta |-> m, err |-> ErrSkipFile]
            ELSE [meta |-> [m EXCEPT !.Time = t.tm], err |-> DecodeErr(probe)]

\* mutant: a tag that parses to the zero time is taken for a timestamp
ReadVideoKeepsZero(probe, loc) ==
    IF ~probe.exec THEN [meta |-> NoMeta, err |-> "exec"]
    ELSE IF probe.decode = "bad" THEN [meta |-> NoMeta, err |-> "json"]
    ELSE LET dim == StreamDimensions(probe.Streams)
             m == [Width |-> dim.Width, Height |-> dim.Height, Time |-> ZeroTime]
             t == ResolveTime(probe, loc)
         IN IF t.err # ""
            THEN [meta |-> m, err |-> ErrSkipFile]
            ELSE [meta |-> [m EXCEPT !.Time = t.tm], err |-> DecodeErr(probe)]

\* A probe as ReadVideo sees it:
\*   exec    exec.Command(...).Output() succeeds
\*   decode  "ok", "eof" (io.EOF: the output holds no JSON value at all) or
\*           "bad" (any other decode error, a truncated report included)
\*   Streams, QtCreationDate, CreationTime   the decoded Ffprobe
ReadVideo(probe, loc) ==
    IF ~probe.exec THEN [meta |-> NoMeta, err |-> "exec"]
    ELSE IF probe.decode = "bad" THEN [meta |-> NoMeta, err |-> "json"]
    ELSE LET dim == StreamDimensions(probe.Streams)
             m == [Width |-> dim.Width, Height |-> dim.Height, Time |-> ZeroTime]
             t == ResolveTime(probe, loc)
         IN IF t.err # "" \/ IsZero(t.tm)
            THEN [meta |-> m, err |-> ErrSkipFile]
            ELSE [meta |-> [m EXCEPT !.Time = t.tm], err |-> DecodeErr(probe)]

-----------------------------------------------------------------------------
(* WalkPath, src/main.go:240-323 *)

\* fpath of the i-th entry: every entry has a path of its own
Origin(i, name) == "in/" \o ToString(i) \o "/" \o Str(name)

\* an entry of the call log: the i-th entry of the tree made visit call op,
\* with a zero time (the derivers) and with the result err
Call(op, i, zero, err) == [op |-> op, i |-> i, zero |-> zero, err |-> err]

\* mutant: the video pattern is tried first
ClassifyVideoFirst(name) ==
    IF VidMatch(name) THEN "video"
    ELSE IF ImgMatch(name) THEN "image"
    ELSE "unknown"

Classify(name) ==
    IF ImgMatch(name) THEN "image"
    ELSE IF VidMatch(name) THEN "video"
    ELSE "unknown"

\* lines 253-262: the record visit starts from
NewFile(origin, e) ==
    [Origin |-> origin, Link |-> "", Flag |-> FlagUnknown, Size |-> e.size,
     Name |-> Str(e.name), Ext |-> FileExt(e.name), Width |-> 0, Height |-> 0]

\* lines 268-272 and 275-279: the record after the extractor returned meta
Extracted(file, kind, meta) ==
    [file EXCEPT !.Name = ConstructFilename(meta.Time) \o "." \o file.Ext,
                 !.Flag = IF kind = "image" THEN FlagImage ELSE FlagVideo,
                 !.Width = meta.Width,
                 !.Height = meta.Height]

\* mutant: every extractor error, the skip signal too, is a hard error
ErrFlagNoSkip(err) == FlagError

\* lines 285-291: the flag of an extractor error
ErrFlag(err) == IF err = ErrSkipFile THEN FlagSkipped ELSE FlagError

\* os.MkdirAll(path.Join(outDir, dir)): nil when the directory exists; a
\* directory that was refused once is refused again; mk is whether the
\* filesystem lets a new one be made
MkdirAll(dir, mk, ds, dn) ==
    IF dir \in ds THEN [err |-> "", dirs |-> ds, denied |-> dn]
    ELSE IF dir \in dn \/ ~mk THEN [err |-> "mkdir", dirs |-> ds, denied |-> dn \cup {dir}]
    ELSE [err |-> "", dirs |-> ds \cup {dir}, denied |-> dn]

\* mutant: the new link takes the place of the one that is there (rename)
OsLinkReplaces(origin, dst, nolink, ls) ==
    IF dst \in DOMAIN ls THEN [err |-> "", links |-> [ls EXCEPT ![dst] = origin]]
    ELSE IF nolink THEN [err |-> "link", links |-> ls]
    ELSE [err |-> "", links |-> ls @@ (dst :> origin)]

\* mutant: every failure of os.Link is taken for EEXIST
OsLinkExistOnFailure(origin, dst, nolink, ls) ==
    IF dst \in DOMAIN ls \/ nolink THEN [err |-> "exist", links |-> ls]
    ELSE [err |-> "", links |-> ls @@ (dst :> origin)]

\* os.Link(fpath, dst): EEXIST when dst is there, another error when the
\* source cannot be linked, else the new entry
OsLink(origin, dst, nolink, ls) ==
    IF dst \in DOMAIN ls THEN [err |-> "exist", links |-> ls]
    ELSE IF nolink THEN [err |-> "link", links |-> ls]
    ELSE [err |-> "", links |-> ls @@ (dst :> origin)]

\* mutant: file.Link is set before the outcome of os.Link is looked at
LinkedSetsLinkFirst(file, newPath, err) ==
    LET f == [file EXCEPT !.Link = newPath \o "/" \o file.Name]
    IN IF err = "" THEN [file |-> f, ret |-> ""]
       ELSE IF err = "exist" THEN [file |-> [f EXCEPT !.Flag = FlagExists], ret |-> ""]
       ELSE [file |-> [f EXCEPT !.Flag = FlagError], ret |-> err]

\* mutant: a failed link is recorded and the walk goes on
LinkedGoesOn(file, newPath, err) ==
    IF err = "" THEN [file |-> [file EXCEPT !.Link = newPath \o "/" \o file.Name], ret |-> ""]
    ELSE IF err = "exist"
    THEN [file |-> [file EXCEPT !.Flag = FlagExists,
                                !.Link = newPath \o "/" \o file.Name], ret |-> ""]
    ELSE [file |-> [file EXCEPT !.Flag = FlagError], ret |-> ""]

\* mutant: an existing destination counts as a fresh link (no FlagExists)
LinkedIgnoresExist(file, newPath, err) ==
    IF err = "" \/ err = "exist"
    THEN [file |-> [file EXCEPT !.Link = newPath \o "/" \o file.Name], ret |-> ""]
    ELSE [file |-> [file EXCEPT !.Flag = FlagError], ret |-> err]

\* mutant: the link is recorded by the file name alone, without its directory
LinkedNameOnly(file, newPath, err) ==
    IF err = "" THEN [file |-> [file EXCEPT !.Link = file.Name], ret |-> ""]
    ELSE IF err = "exist"
    THEN [file |-> [file EXCEPT !.Flag = FlagExists, !.Link = file.Name], ret |-> ""]
    ELSE [file |-> [file EXCEPT !.Flag = FlagError], ret |-> err]

\* lines 305-316: the record and visit's result after os.Link returned err
Linked(file, newPath, err) ==
    IF err = "" THEN [file |-> [file EXCEPT !.Link = newPath \o "/" \o file.Name], ret |-> ""]
    ELSE IF err = "exist"
    THEN [file |-> [file EXCEPT !.Flag = FlagExists,
                                !.Link = newPath \o "/" \o file.Name], ret |-> ""]
    ELSE [file |-> [file EXCEPT !.Flag = FlagError], ret |-> err]

\* lines 293-316: placement of a file whose extractor succeeded
Place(file, i, newPath, nolink, mk, ds, ls, dn) ==
    IF newPath = ""
    THEN [file |-> [file EXCEPT !.Flag = FlagError], ret |-> ErrNoPath,
          dirs |-> ds, links |-> ls, denied |-> dn, calls |-> <<>>]
    ELSE LET md == MkdirAll(newPath, mk, ds, dn)
         IN IF md.err # ""
            THEN [file |-> [file EXCEPT !.Flag = FlagError], ret |-> md.err,
                  dirs |-> md.dirs, links |-> ls, denied |-> md.denied,
                  calls |-> <<Call("MkdirAll", i, FALSE, md.err)>>]
            ELSE LET lk == OsLink(file.Origin, newPath \o "/" \o file.Name, nolink, ls)
                     fin == Linked(file, newPath, lk.err)
                 IN [file |-> fin.file, ret |-> fin.ret,
                     dirs |-> md.dirs, links |-> lk.links, denied |-> md.denied,
                     calls |-> <<Call("MkdirAll", i, FALSE, md.err),
                                 Call("Link", i, FALSE, lk.err)>>]

\* mutant: the record is filled in only once the extractor has succeeded
ProcessKeepsName(file, kind, i, e, mk, loc, ds, ls, dn) ==
    LET r == IF kind = "image" THEN ReadImage(e.img) ELSE ReadVideo(e.vid, loc)
        newPath == ConstructPath(r.meta.Time)
        f1 == Extracted(file, kind, r.meta)
        cs == <<Call(IF kind = "image" THEN "ReadImage" ELSE "ReadVideo", i, FALSE, r.err),
                Call("ConstructPath", i, IsZero(r.meta.Time), ""),
                Call("ConstructFilename", i, IsZero(r.meta.Time), "")>>
    IN IF r.err # ""
       THEN [file |-> [file EXCEPT !.Flag = ErrFlag(r.err)], ret |-> "",
             dirs |-> ds, links |-> ls, denied |-> dn, calls |-> cs]
       ELSE LET pl == Place(f1, i, newPath, e.nolink, mk, ds, ls, dn)
            IN [pl EXCEPT !.calls = cs \o pl.calls]

\* lines 266-316 for a file that matched a pattern
Process(file, kind, i, e, mk, loc, ds, ls, dn) ==
    LET r == IF kind = "image" THEN ReadImage(e.img) ELSE ReadVideo(e.vid, loc)
        newPath == ConstructPath(r.meta.Time)
        f1 == Extracted(file, kind, r.meta)
        cs == <<Call(IF kind = "image" THEN "ReadImage" ELSE "ReadVideo", i, FALSE, r.err),
                Call("ConstructPath", i, IsZero(r.meta.Time), ""),
                Call("ConstructFilename", i, IsZero(r.meta.Time), "")>>
    IN IF r.err # ""
       THEN [file |-> [f1 EXCEPT !.Flag = ErrFlag(r.err)], ret |-> "",
             dirs |-> ds, links |-> ls, denied |-> dn, calls |-> cs]
       ELSE LET pl == Place(f1, i, newPath, e.nolink, mk, ds, ls, dn)
            IN [pl EXCEPT !.calls = cs \o pl.calls]

\* the body of visit for a non-directory entry with an extension
VisitFile(i, e, mk, loc, ds, ls, dn) ==
    LET file == NewFile(Origin(i, e.name), e)
        kind == Classify(e.name)
    IN IF kind = "unknown"
       THEN [file |-> file, ret |-> "", dirs |-> ds, links |-> ls,
             denied |-> dn, calls |-> <<>>]
       ELSE Process(file, kind, i, e, mk, loc, ds, ls, dn)

-----------------------------------------------------------------------------
(* The source trees and their files *)

WT1 == Date(2016, 7, 18, 12, 29, 35, 600)
WT2 == Date(2016, 7, 19, 0, 30, 0, 600)

NoDate == [tm |-> ZeroTime, err |-> "exif: tag not present"]

DateTime(tm) == [tm |-> tm, err |-> ""]

NoImage == [open |-> FALSE, exif |-> FALSE, hasX |-> FALSE, hasY |-> FALSE,
            x |-> 0, y |-> 0, dt |-> NoDate, cfg |-> [ok |-> FALSE, w |-> 0, h |-> 0]]

WalkImages ==
    { NoImage,
      [NoImage EXCEPT !.open = TRUE, !.cfg = [ok |-> TRUE, w |-> 3, h |-> 2]],
      [NoImage EXCEPT !.open = TRUE, !.exif = TRUE, !.hasX = TRUE, !.hasY = TRUE,
                      !.x = 4, !.y = 3, !.dt = DateTime(WT1)],
      [NoImage EXCEPT !.open = TRUE, !.exif = TRUE, !.dt = DateTime(WT2)],
      [NoImage EXCEPT !.open = TRUE, !.exif = TRUE, !.hasX = TRUE, !.hasY = TRUE,
                      !.x = 4, !.y = 3, !.dt = DateTime(ZeroTime)] }

Clock(y, m, d, h, mi, s) ==
    [year |-> y, month |-> m, day |-> d, hour |-> h, minute |-> mi, second |-> s]

TagTz1 == [fmt |-> "tz", w |-> Clock(2016, 7, 18, 12, 29, 35), off |-> 600]
TagUtc1 == [fmt |-> "utcz", w |-> Clock(2016, 7, 18, 23, 29, 36), off |-> 0]
TagSpace == [fmt |-> "space", w |-> Clock(2016, 7, 18, 2, 29, 36), off |-> 0]

VideoStream == [Width |-> 4, Height |-> 3, CodecType |-> "video", CreationTime |-> NoTag]

NoProbe == [exec |-> FALSE, decode |-> "ok", Streams |-> <<>>,
            QtCreationDate |-> NoTag, CreationTime |-> NoTag]

WalkProbes ==
    { NoProbe,
      [NoProbe EXCEPT !.exec = TRUE, !.decode = "bad"],
      [NoProbe EXCEPT !.exec = TRUE, !.Streams = <<VideoStream>>,
                      !.QtCreationDate = TagTz1, !.CreationTime = TagUtc1],
      [NoProbe EXCEPT !.exec = TRUE, !.CreationTime = TagUtc1],
      [NoProbe EXCEPT !.exec = TRUE, !.Streams = <<VideoStream>>],
      [NoProbe EXCEPT !.exec = TRUE, !.CreationTime = TagSpace] }

WalkNames ==
    { <<"a", ".", "j", "p", "g">>,
      <<"x", ".", "J", "P", "G", ".", "m", "o", "v">>,
      <<"b", ".", "M", "P", "4">>,
      <<"c", ".", "t", "x", "t">>,
      <<"m", "k">> }

\* kind: "dir", "nostat" (Lstat of the entry fails: visit gets a nil FileInfo)
\* or "file"; nolink: os.Link of this file fails for another reason than EEXIST
Entry(kind, name, img, vid, nolink) ==
    [kind |-> kind, name |-> name, size |-> Len(name), img |-> img, vid |-> vid,
     nolink |-> nolink]

Placeable(kind, e) ==
    \/ kind = "image" /\ ReadImage(e.img).err = ""
    \/ kind = "video" /\ ReadVideo(e.vid, 0).err = ""

Entries ==
    { Entry("dir", <<"d">>, NoImage, NoProbe, FALSE),
      Entry("nostat", <<"n">>, NoImage, NoProbe, FALSE) }
    \cup { e \in { Entry("file", n, img, vid, nl) :
                     n \in WalkNames, img \in WalkImages, vid \in WalkProbes,
                     nl \in BOOLEAN } :
             LET k == IF ExtPanics(e.name) THEN "unknown" ELSE Classify(e.name)
             IN /\ k # "image" => e.img = NoImage
                /\ k # "video" => e.vid = NoProbe
                /\ e.nolink => Placeable(k, e) }

RECURSIVE SeqsUpTo(_, _)
SeqsUpTo(S, n) ==
    IF n = 0 THEN {<<>>}
    ELSE LET shorter == SeqsUpTo(S, n - 1)
         IN shorter \cup { Append(t, x) : t \in { u \in shorter : Len(u) = n - 1 }, x \in S }

Trees == SeqsUpTo(Entries, MaxFiles)

LocalOffsets == {600, 0 - 300}

\* lines 259-283 on a file name alone: "panic", "image", "video" or "unknown"
Dispatch(name) == IF ExtPanics(name) THEN "panic" ELSE Classify(name)

Pieces ==
    { <<".">>, <<"a">>, <<"\n">>, <<"t", "x", "t">>,
      <<"j", "p", "g">>, <<"J", "p", "E", "G">>, <<"j", "p">>, <<"g">>,
      <<"m", "o", "v">>, <<"M", "P", "4">>, <<"m", "4", "v">>, <<"M">> }

RECURSIVE Flatten(_)
Flatten(ss) == IF ss = <<>> THEN <<>> ELSE Head(ss) \o Flatten(Tail(ss))

\* file names: one to MaxPieces pieces
Names == { Flatten(t) : t \in SeqsUpTo(Pieces, MaxPieces) } \ {<<>>}

\* what os.Open, exif.Decode, the EXIF tags and image.DecodeConfig can hand
\* to ReadImage: nothing is decoded from a file that does not open, no tag is
\* read without EXIF
ImageDates == {NoDate, DateTime(WT1), DateTime(WT2), DateTime(ZeroTime)}

ImageConfigs ==
    {[ok |-> FALSE, w |-> 0, h |-> 0], [ok |-> TRUE, w |-> 3, h |-> 2],
     [ok |-> TRUE, w |-> 0, h |-> 0]}

Images ==
    { NoImage }
    \cup { [NoImage EXCEPT !.open = TRUE, !.cfg = c] : c \in ImageConfigs }
    \cup { [open |-> TRUE, exif |-> TRUE, hasX |-> hx, hasY |-> hy,
             x |-> IF hx THEN 4 ELSE 0, y |-> IF hy THEN 3 ELSE 0,
             dt |-> d, cfg |-> c] :
             hx \in BOOLEAN, hy \in BOOLEAN, d \in ImageDates, c \in ImageConfigs }

\* timestamps as an extractor returns them: a wall clock and the offset of its
\* zone
StampDays ==
    {<<2016, 7, 18>>, <<2016, 7, 19>>, <<2016, 8, 18>>, <<2015, 7, 18>>,
     <<2016, 2, 29>>, <<2016, 12, 31>>, <<999, 7, 18>>}

StampClocks ==
    {<<0, 0, 0>>, <<0, 30, 0>>, <<9, 59, 59>>, <<12, 29, 35>>, <<23, 59, 59>>}

StampOffsets == {0, 600, 0 - 300}

Stamps ==
    { [w |-> Clock(d[1], d[2], d[3], c[1], c[2], c[3]), off |-> o] :
        d \in StampDays, c \in StampClocks, o \in StampOffsets }

StampTime(st) ==
    Date(st.w.year, st.w.month, st.w.day, st.w.hour, st.w.minute, st.w.second, st.off)

TagJunk == [NoTag EXCEPT !.fmt = "junk"]
TagTzZero == [fmt |-> "tz", w |-> Clock(1, 1, 1, 10, 0, 0), off |-> 600]
TagTzBad == [fmt |-> "tz", w |-> Clock(2016, 13, 18, 12, 29, 35), off |-> 600]
TagUtc2 == [fmt |-> "utcz", w |-> Clock(2015, 12, 31, 20, 0, 1), off |-> 0]
TagUtcZero == [fmt |-> "utcz", w |-> Clock(1, 1, 1, 0, 0, 0), off |-> 0]

QtTags == {NoTag, TagJunk, TagTz1, TagTzZero, TagTzBad, TagUtc1}
CtTags == {NoTag, TagUtc1, TagUtcZero, TagSpace, TagTz1}
StreamTags == {NoTag, TagUtc2, TagSpace}

ProbeStreams ==
    { [Width |-> d[1], Height |-> d[2], CodecType |-> d[3], CreationTime |-> t] :
        d \in {<<4, 3, "video">>, <<6, 5, "video">>, <<4, 0, "video">>,
               <<4, 3, "audio">>, <<0, 0, "audio">>},
        t \in StreamTags }

\* what ffprobe and the JSON decoder can hand to ReadVideo; io.EOF comes
\* with nothing decoded
Probes ==
    { NoProbe, [NoProbe EXCEPT !.exec = TRUE, !.decode = "bad"],
      [NoProbe EXCEPT !.exec = TRUE, !.decode = "eof"] }
    \cup { [exec |-> TRUE, decode |-> "ok", Streams |-> ss,
             QtCreationDate |-> qt, CreationTime |-> ct] :
             ss \in SeqsUpTo(ProbeStreams, MaxStreams), qt \in QtTags, ct \in CtTags }

-----------------------------------------------------------------------------
(* The walk as a state machine *)

\* cmdProcess has not returned
NoCmd == [err |-> "", code |-> 0, jsonWritten |-> FALSE, json |-> <<>>,
          reportWritten |-> FALSE]

\* the entries under inDir before the walk: each path with what is there
SourceOf(t) ==
    { [path |-> Origin(i, t[i].name), kind |-> t[i].kind, size |-> t[i].size,
       img |-> t[i].img, vid |-> t[i].vid] : i \in 1..Len(t) }

Init ==
    /\ root \in {"ok", "nolstat", "noread"}
    /\ tree \in Trees
    /\ root # "ok" => tree = <<>>
    /\ local \in LocalOffsets
    /\ pc = "start"
    /\ pos = 0
    /\ files = <<>>
    /\ out = <<>>
    /\ walkErr = ""
    /\ dirs = {}
    /\ links = <<>>
    /\ denied = {}
    /\ calls = <<>>
    /\ run = 1
    /\ files1 = <<>>
    /\ dest1 = [dirs |-> {}, links |-> <<>>]
    /\ arg = "none"
    /\ res = "none"
    /\ source = SourceOf(tree)
    /\ errlog = <<>>
    /\ cmd = NoCmd

\* filepath.Walk hands the root to visit: a root that Lstat fails on comes with
\* a nil FileInfo, and f.IsDir() panics; a directory whose names cannot be
\* read comes a second time with the error, which visit drops (lines 243-247)
VisitRoot ==
    /\ pc = "start"
    /\ pc' = IF root = "nolstat" THEN "panic" ELSE "walk"
    /\ UNCHANGED <<root, tree, local, pos, files, out, walkErr, dirs, links,
                   denied, calls, run, files1, dest1, arg, res, source, errlog, cmd>>

\* visit of a directory: return nil, no record
VisitDir ==
    /\ pc = "walk" /\ walkErr = "" /\ pos < Len(tree)
    /\ tree[pos + 1].kind = "dir"
    /\ pos' = pos + 1
    /\ UNCHANGED <<root, tree, local, pc, files, out, walkErr, dirs, links,
                   denied, calls, run, files1, dest1, arg, res, source, errlog, cmd>>

\* visit panics before its defers are set: nil FileInfo (line 244) or a name
\* without a dot (line 259)
VisitPanic ==
    /\ pc = "walk" /\ walkErr = "" /\ pos < Len(tree)
    /\ LET e == tree[pos + 1]
       IN e.kind = "nostat" \/ (e.kind = "file" /\ ExtPanics(e.name))
    /\ pc' = "panic"
    /\ pos' = pos + 1
    /\ UNCHANGED <<root, tree, local, files, out, walkErr, dirs, links,
                   denied, calls, run, files1, dest1, arg, res, source, errlog, cmd>>

\* mutant: the record is put in front of the inventory
VisitedPrepends(v) ==
    /\ files' = <<v.file>> \o files
    /\ out' = Append(out, FlagString(v.file.Flag))
    /\ walkErr' = v.ret
    /\ dirs' = v.dirs
    /\ links' = v.links
    /\ denied' = v.denied
    /\ calls' = calls \o v.calls
    /\ source' = source

\* mutant: the file is moved to its destination (os.Rename), not linked
VisitedMovesSource(v) ==
    /\ files' = Append(files, v.file)
    /\ out' = Append(out, FlagString(v.file.Flag))
    /\ walkErr' = v.ret
    /\ dirs' = v.dirs
    /\ links' = v.links
    /\ denied' = v.denied
    /\ calls' = calls \o v.calls
    /\ source' = { e \in source : e.path = v.file.Origin => v.links = links }

\* mutant: the flag is printed as it is when the defer statement is reached
VisitedPrintsEarly(v) ==
    /\ files' = Append(files, v.file)
    /\ out' = Append(out, FlagString(FlagUnknown))
    /\ walkErr' = v.ret
    /\ dirs' = v.dirs
    /\ links' = v.links
    /\ denied' = v.denied
    /\ calls' = calls \o v.calls
    /\ source' = source

\* lines 263-264 and what visit left behind: the defers print the flag and
\* append the record whatever visit returns (v is VisitFile's result); visit
\* opens, probes and links fpath, and writes nothing under inDir
Visited(v) ==
    /\ files' = Append(files, v.file)
    /\ out' = Append(out, FlagString(v.file.Flag))
    /\ walkErr' = v.ret
    /\ dirs' = v.dirs
    /\ links' = v.links
    /\ denied' = v.denied
    /\ calls' = calls \o v.calls
    /\ source' = source

\* visit of a file; a non-nil return ends filepath.Walk
Visit ==
    /\ pc = "walk" /\ walkErr = "" /\ pos < Len(tree)
    /\ tree[pos + 1].kind = "file" /\ ~ExtPanics(tree[pos + 1].name)
    /\ \E mk \in BOOLEAN :
         Visited(VisitFile(pos + 1, tree[pos + 1], mk, local, dirs, links, denied))
    /\ pos' = pos + 1
    /\ UNCHANGED <<root, tree, local, pc, run, files1, dest1, arg, res, errlog, cmd>>

\* lines 319-322: filepath.Walk is over, print the newline and return
Return ==
    /\ pc = "walk"
    /\ walkErr # "" \/ pos = Len(tree)
    /\ out' = Append(out, "\n")
    /\ pc' = "returned"
    /\ UNCHANGED <<root, tree, local, pos, files, walkErr, dirs, links,
                   denied, calls, run, files1, dest1, arg, res, source, errlog, cmd>>

\* fmt.Fprintf(os.Stderr, "%s\t%s\n", el.Flag, el.Origin)
LogLine(el) == FlagString(el.Flag) \o "\t" \o el.Origin \o "\n"

\* lines 398-402: for _, el := range files { if el.Flag.IsLoggable() {...} }
RECURSIVE Loggables(_)
Loggables(fs) ==
    IF fs = <<>> THEN <<>>
    ELSE (IF IsLoggable(Head(fs).Flag) THEN <<LogLine(Head(fs))>> ELSE <<>>)
            \o Loggables(Tail(fs))

\* json.MarshalIndent(files, ...): the records in order, each Flag through
\* its MarshalJSON
JSONOf(fs) == [k \in 1..Len(fs) |-> [fs[k] EXCEPT !.Flag = MarshalJSON(fs[k].Flag)]]

\* main (lines 213-219): os.Exit(1) on an error
ExitCode(err) == IF err = "" THEN 0 ELSE 1

\* mutant: a record with FlagError makes cmdProcess fail
CmdResultFailsOnFlags(fs, werr, jsonOk, reportOk) ==
    IF ~jsonOk
    THEN [err |-> "json", code |-> ExitCode("json"), jsonWritten |-> FALSE,
          json |-> <<>>, reportWritten |-> FALSE]
    ELSE IF ~reportOk
    THEN [err |-> "report", code |-> ExitCode("report"), jsonWritten |-> TRUE,
          json |-> JSONOf(fs), reportWritten |-> FALSE]
    ELSE IF \E k \in 1..Len(fs) : fs[k].Flag = FlagError
    THEN [err |-> "files", code |-> ExitCode("files"), jsonWritten |-> TRUE,
          json |-> JSONOf(fs), reportWritten |-> TRUE]
    ELSE [err |-> "", code |-> ExitCode(""), jsonWritten |-> TRUE,
          json |-> JSONOf(fs), reportWritten |-> TRUE]

\* mutant: the walk's error is returned at once
CmdResultReturnsWalkErr(fs, werr, jsonOk, reportOk) ==
    IF werr # ""
    THEN [err |-> werr, code |-> ExitCode(werr), jsonWritten |-> FALSE,
          json |-> <<>>, reportWritten |-> FALSE]
    ELSE IF ~jsonOk
    THEN [err |-> "json", code |-> ExitCode("json"), jsonWritten |-> FALSE,
          json |-> <<>>, reportWritten |-> FALSE]
    ELSE IF ~reportOk
    THEN [err |-> "report", code |-> ExitCode("report"), jsonWritten |-> TRUE,
          json |-> JSONOf(fs), reportWritten |-> FALSE]
    ELSE [err |-> "", code |-> ExitCode(""), jsonWritten |-> TRUE,
          json |-> JSONOf(fs), reportWritten |-> TRUE]

\* cmdProcess from line 404 on, with the inventory fs and the walk's error
\* werr at hand: writeJSON, then the template and the report; jsonOk and
\* reportOk are whether the filesystem lets each be done
CmdResult(fs, werr, jsonOk, reportOk) ==
    IF ~jsonOk
    THEN [err |-> "json", code |-> ExitCode("json"), jsonWritten |-> FALSE,
          json |-> <<>>, reportWritten |-> FALSE]
    ELSE IF ~reportOk
    THEN [err |-> "report", code |-> ExitCode("report"), jsonWritten |-> TRUE,
          json |-> JSONOf(fs), reportWritten |-> FALSE]
    ELSE [err |-> "", code |-> ExitCode(""), jsonWritten |-> TRUE,
          json |-> JSONOf(fs), reportWritten |-> TRUE]

\* cmdProcess after WalkPath returned (lines 392-458): the walk's error, if
\* any, then the loggable records, to stderr; then the JSON inventory and
\* the report
Report ==
    /\ pc = "returned"
    /\ errlog' = (IF walkErr # "" THEN <<walkErr \o "\n">> ELSE <<>>) \o Loggables(files)
    /\ \E jsonOk \in BOOLEAN, reportOk \in BOOLEAN :
          cmd' = CmdResult(files, walkErr, jsonOk, reportOk)
    /\ pc' = "reported"
    /\ UNCHANGED <<root, tree, local, pos, files, out, walkErr, dirs, links,
                   denied, calls, run, files1, dest1, arg, res, source>>

\* WalkPath is called again on the same tree and the same destination
Rerun ==
    /\ pc = "returned" /\ run = 1
    /\ run' = 2
    /\ files1' = files
    /\ dest1' = [dirs |-> dirs, links |-> links]
    /\ pc' = "start"
    /\ pos' = 0
    /\ files' = <<>>
    /\ out' = <<>>
    /\ walkErr' = ""
    /\ calls' = <<>>
    /\ UNCHANGED <<root, tree, local, dirs, links, denied, arg, res, source, errlog, cmd>>

\* the walk's variables while a single function is looked at
Idle ==
    /\ root = "ok" /\ tree = <<>> /\ pos = 0 /\ files = <<>> /\ out = <<>>
    /\ walkErr = "" /\ dirs = {} /\ links = <<>> /\ denied = {}
    /\ calls = <<>> /\ run = 1 /\ files1 = <<>>
    /\ dest1 = [dirs |-> {}, links |-> <<>>]
    /\ source = {} /\ errlog = <<>> /\ cmd = NoCmd

InitClassify ==
    /\ Idle /\ local = 0
    /\ arg \in Names
    /\ res = "none"
    /\ pc = "arg"

\* visit classifies the name of an entry
DispatchName ==
    /\ pc = "arg"
    /\ res' = Dispatch(arg)
    /\ pc' = "res"
    /\ UNCHANGED <<root, tree, local, pos, files, out, walkErr, dirs, links,
                   denied, calls, run, files1, dest1, arg, source, errlog, cmd>>

SpecClassify == InitClassify /\ [][DispatchName]_vars

VideoName == <<"b", ".", "M", "P", "4">>

InitVideo ==
    /\ Idle /\ local \in LocalOffsets
    /\ arg \in Probes
    /\ res = "none"
    /\ pc = "arg"

\* ReadVideo on a probe, and visit of a video file with that probe, the
\* first file of a walk into an empty destination
ProbeVideo ==
    /\ pc = "arg"
    /\ res' = [video |-> ReadVideo(arg, local),
                visit |-> VisitFile(1, Entry("file", VideoName, NoImage, arg, FALSE),
                                    TRUE, local, dirs, links, denied)]
    /\ pc' = "res"
    /\ UNCHANGED <<root, tree, local, pos, files, out, walkErr, dirs, links,
                   denied, calls, run, files1, dest1, arg, source, errlog, cmd>>

SpecVideo == InitVideo /\ [][ProbeVideo]_vars

ImageName == <<"a", ".", "j", "p", "g">>

InitImage ==
    /\ Idle /\ local \in LocalOffsets
    /\ arg \in Images
    /\ res = "none"
    /\ pc = "arg"

\* ReadImage on an image file, and visit of that file, the first file of a
\* walk into an empty destination
ProbeImage ==
    /\ pc = "arg"
    /\ \E mk \in BOOLEAN :
         res' = [image |-> ReadImage(arg),
                 visit |-> VisitFile(1, Entry("file", ImageName, arg, NoProbe, FALSE),
                                     mk, local, dirs, links, denied)]
    /\ pc' = "res"
    /\ UNCHANGED <<root, tree, local, pos, files, out, walkErr, dirs, links,
                   denied, calls, run, files1, dest1, arg, source, errlog, cmd>>

SpecImage == InitImage /\ [][ProbeImage]_vars

InitPath ==
    /\ Idle /\ local = 0
    /\ arg \in Stamps \X Stamps
    /\ res = "none"
    /\ pc = "arg"

\* ConstructPath and ConstructFilename on the times of two files
DerivePaths ==
    /\ pc = "arg"
    /\ res' = [dir |-> [k \in 1..2 |-> ConstructPath(StampTime(arg[k]))],
                name |-> [k \in 1..2 |-> ConstructFilename(StampTime(arg[k]))],
                chars |-> [k \in 1..2 |-> FilenameChars(StampTime(arg[k]))]]
    /\ pc' = "res"
    /\ UNCHANGED <<root, tree, local, pos, files, out, walkErr, dirs, links,
                   denied, calls, run, files1, dest1, arg, source, errlog, cmd>>

SpecPath == InitPath /\ [][DerivePaths]_vars

Next == VisitRoot \/ VisitDir \/ VisitPanic \/ Visit \/ Return \/ Report \/ Rerun

Spec == Init /\ [][Next]_vars

-----------------------------------------------------------------------------
(* Properties of the walk *)

Placed == {FlagImage, FlagVideo, FlagExists}

\* the entries of the tree that visit was called on in this run
Seen == 1..pos

\* the records of the inventory that belong to the i-th entry of the tree
RecordsOf(i) ==
    { k \in 1..Len(files) : files[k].Origin = Origin(i, tree[i].name) }

\* the calls visit made for the i-th entry
CallsOf(i) == { k \in 1..Len(calls) : calls[k].i = i }

Extractors == {"ReadImage", "ReadVideo"}

\* the extractor failed for the i-th entry, with err
ExtractorFailed(i, err) ==
    \E k \in CallsOf(i) : calls[k].op \in Extractors /\ calls[k].err = err /\ err # ""

ExtractorSucceeded(i) ==
    \E k \in CallsOf(i) : calls[k].op \in Extractors /\ calls[k].err = ""

\* the placement step failed for the i-th entry: MkdirAll failed, or Link
\* failed for another reason than the destination being there
PlacementFailed(i) ==
    \E k \in CallsOf(i) :
        \/ calls[k].op = "MkdirAll" /\ calls[k].err # ""
        \/ calls[k].op = "Link" /\ calls[k].err \notin {"", "exist"}

LinkResult(i, err) ==
    \E k \in CallsOf(i) : calls[k].op = "Link" /\ calls[k].err = err

\* C1: in every inventory WalkPath returns, a record's Link is non-empty
\* exactly when its Flag is FlagImage, FlagVideo or FlagExists
C1_LinkIffPlaced ==
    pc = "returned" =>
        \A k \in 1..Len(files) : files[k].Link # "" <=> files[k].Flag \in Placed

\* a returned inventory with a linked record, then a record whose link failed
C1_Witness ==
    /\ pc = "returned"
    /\ \E k \in 1..Len(files) : files[k].Flag = FlagImage /\ files[k].Link # ""
    /\ \E k \in 1..Len(files) : files[k].Flag = FlagError /\ \E i \in Seen :
          k \in RecordsOf(i) /\ LinkResult(i, "link")

C3_ExtractorFailureIsLocal ==
    \A i \in Seen : \A err \in {ErrSkipFile, "open", "exec", "json"} :
        ExtractorFailed(i, err) =>
            /\ \E k \in 1..Len(files) :
                  /\ RecordsOf(i) = {k}
                  /\ files[k].Flag = IF err = ErrSkipFile THEN FlagSkipped ELSE FlagError
                  /\ files[k].Link = ""
            /\ \A k \in CallsOf(i) : calls[k].op \notin {"MkdirAll", "Link"}
            /\ pos = i => walkErr = ""
            /\ (pc = "returned" /\ pos = i) => i = Len(tree)

\* a skipped file, then the visit of a file with a hard extractor error, and
\* the walk returns no error
C3_Witness ==
    /\ pc = "returned" /\ walkErr = ""
    /\ \E i \in Seen : /\ ExtractorFailed(i, ErrSkipFile)
                       /\ i < pos
                       /\ ExtractorFailed(i + 1, "exec")

\* C4 as claimed: with a source root that cannot be read WalkPath does not
\* crash and returns the traversal's error
C4_UnreadableRootIsReturned ==
    root # "ok" => /\ pc # "panic"
                   /\ pc = "returned" => walkErr # ""

\* C5 as claimed: a visited non-directory entry whose name matches neither
\* pattern, with or without an extension, has exactly one record, with
\* FlagUnknown, an empty Link, its own name, no dimensions, and no call made
C5_UnknownFileIsRecorded ==
    \A i \in Seen :
        (tree[i].kind = "file" /\ Classify(tree[i].name) = "unknown") =>
            /\ \E k \in 1..Len(files) :
                  /\ RecordsOf(i) = {k}
                  /\ files[k].Flag = FlagUnknown
                  /\ files[k].Link = ""
                  /\ files[k].Name = Str(tree[i].name)
                  /\ files[k].Width = 0 /\ files[k].Height = 0
            /\ CallsOf(i) = {}

\* C6: a second WalkPath over the same tree into the same destination gives
\* FlagExists, with the same Link, to every file the first run recorded as
\* FlagImage or FlagVideo, and adds no directory and no link
C6_SecondRunIsAlreadyLinked ==
    (run = 2 /\ pc = "returned") =>
        /\ \A k \in 1..Len(files1) :
              files1[k].Flag \in {FlagImage, FlagVideo} =>
                  \E j \in 1..Len(files) :
                      /\ files[j].Origin = files1[k].Origin
                      /\ files[j].Flag = FlagExists
                      /\ files[j].Link = files1[k].Link
        /\ links = dest1.links
        /\ dirs = dest1.dirs

\* a second run that returned, after a first run that linked an image and a
\* video
C6_Witness ==
    /\ run = 2 /\ pc = "returned"
    /\ \E k \in 1..Len(files1) : files1[k].Flag = FlagImage
    /\ \E k \in 1..Len(files1) : files1[k].Flag = FlagVideo
    /\ \A k \in 1..Len(files) : files[k].Flag = FlagExists

\* the kind and the time the extractor of the i-th entry came back with
KindOf(i) == IF ImgMatch(tree[i].name) THEN FlagImage ELSE FlagVideo

TimeOf(i) ==
    IF ImgMatch(tree[i].name) THEN tree[i].img.dt.tm
    ELSE ReadVideo(tree[i].vid, local).meta.Time

\* the destination the i-th entry is to be linked at
LinkOf(i) ==
    ConstructPath(TimeOf(i)) \o "/" \o ConstructFilename(TimeOf(i)) \o "."
        \o FileExt(tree[i].name)

\* C7: for a file whose extractor succeeded the outcome of the placement
\* decides the record: link made -> the media kind and Link = directory/name;
\* destination exists -> FlagExists and that same Link; MkdirAll failed or
\* Link failed otherwise -> FlagError and no Link
C7_PlacementOutcomeDecidesRecord ==
    \A i \in Seen : ExtractorSucceeded(i) =>
        \E k \in 1..Len(files) :
            /\ RecordsOf(i) = {k}
            /\ LinkResult(i, "") =>
                  /\ files[k].Flag = KindOf(i)
                  /\ files[k].Link = LinkOf(i)
                  /\ LinkOf(i) \in DOMAIN links
            /\ LinkResult(i, "exist") =>
                  files[k].Flag = FlagExists /\ files[k].Link = LinkOf(i)
            /\ PlacementFailed(i) =>
                  files[k].Flag = FlagError /\ files[k].Link = ""
            /\ LinkResult(i, "") \/ LinkResult(i, "exist") \/ PlacementFailed(i)

\* one file linked at its derived place, a second one that found the place
\* taken
C7_Witness ==
    \E i, j \in Seen :
        /\ LinkResult(i, "") /\ LinkResult(j, "exist")
        /\ \E k \in RecordsOf(i) :
              files[k].Link = "2016/07-Jul/2016-07-18/2016-07-18 12.29.35 +1000.jpg"
        /\ \E k \in RecordsOf(j) :
              files[k].Link = "2016/07-Jul/2016-07-18/2016-07-18 12.29.35 +1000.jpg"

-----------------------------------------------------------------------------
(* Properties of the classification *)

SameLetter(c, l) == c = l \/ (c \in DOMAIN Upper /\ Upper[c] = l)

\* the word w stands in s at position i, whatever the case of the letters
StandsAt(s, w, i) ==
    /\ i + Len(w) - 1 <= Len(s)
    /\ \A j \in 1..Len(w) : SameLetter(s[i + j - 1], w[j])

\* s contains one of the words
Contains(s, words) ==
    \E i \in 1..Len(s) : \E w \in words : StandsAt(s, w, i)

\* s contains one of the words after a character that is no line break
ContainsAfterChar(s, words) ==
    \E i \in 2..Len(s) : s[i - 1] # "\n" /\ \E w \in words : StandsAt(s, w, i)

HasDot(s) == \E i \in 1..Len(s) : s[i] = "."

\* C8 as claimed (for the names visit gets to classify): the image extractor
\* exactly for the names containing jpg or jpeg anywhere, the video extractor
\* exactly for the names containing mov, mp4 or m4v anywhere
C8_DispatchByContainment ==
    (pc = "res" /\ res \in {"image", "video", "unknown"}) =>
        /\ res = "image" <=> Contains(arg, ImgWords)
        /\ res = "video" <=> Contains(arg, VidWords)

\* C8 as amended: a name without a dot crashes visit; any other name goes to
\* the image extractor exactly when it contains jpg or jpeg after at least
\* one character (no line break), and to the video extractor exactly when it
\* does not, and contains mov, mp4 or m4v after at least one such character
C8_DispatchByPrecededContainment ==
    pc = "res" =>
        /\ res = "panic" <=> ~HasDot(arg)
        /\ HasDot(arg) =>
              /\ res = "image" <=> ContainsAfterChar(arg, ImgWords)
              /\ res = "video" <=> /\ ~ContainsAfterChar(arg, ImgWords)
                                   /\ ContainsAfterChar(arg, VidWords)

\* a name with a dot that holds "jpg" at its very start and nowhere else is
\* handed to no extractor
C8_Witness ==
    /\ pc = "res"
    /\ arg = <<"j", "p", "g", ".", "a">>
    /\ res = "unknown"

-----------------------------------------------------------------------------
(* Properties of ReadVideo *)

\* the tags ReadVideo looks at, in its order, each with the layout it is
\* parsed against
Sources(probe) ==
    <<[tag |-> probe.QtCreationDate, layout |-> "tz"],
      [tag |-> probe.CreationTime, layout |-> "utcz"]>>
    \o [k \in 1..Len(probe.Streams) |->
          [tag |-> probe.Streams[k].CreationTime, layout |-> "utcz"]]

Parses(src) == src.tag.fmt = src.layout /\ ValidClock(src.tag.w)

\* the tag spells the zero time, 0001-01-01 00:00:00 UTC
SpellsZero(tag) == Wall(In(ZeroTime, tag.off)) = tag.w

\* tm is the instant the tag spells
SameInstant(tm, tag) == Wall(In(tm, tag.off)) = tag.w

HasReport(probe) == probe.exec /\ probe.decode # "bad"

\* C9: the first tag that parses, in the order vendor date, container
\* creation_time, streams' creation_time, decides the timestamp: when it
\* spells a non-zero time ReadVideo returns that instant, and no later tag is
\* used when it does not
C9_FirstParsedTagWins ==
    (pc = "res" /\ HasReport(arg)) =>
        LET src == Sources(arg)
            parsed == { k \in 1..Len(src) : Parses(src[k]) }
        IN IF parsed = {} THEN res.video.err = ErrSkipFile
           ELSE LET first == CHOOSE k \in parsed : \A j \in parsed : k <= j
                IN IF SpellsZero(src[first].tag)
                   THEN res.video.err = ErrSkipFile
                   ELSE /\ res.video.err = ""
                        /\ SameInstant(res.video.meta.Time, src[first].tag)

\* neither container tag parses, nor the first stream's; the second stream's
\* does and gives the time
C9_Witness ==
    /\ pc = "res" /\ HasReport(arg)
    /\ Len(arg.Streams) = 2
    /\ \A k \in 1..3 : ~Parses(Sources(arg)[k])
    /\ Parses(Sources(arg)[4])
    /\ res.video.err = ""
    /\ SameInstant(res.video.meta.Time, TagUtc2)

\* C10: a report in which no tag parses to a non-zero time makes ReadVideo
\* return the skip signal, and the record of the file is FlagSkipped
C10_NoTimestampIsSkipped ==
    (pc = "res" /\ HasReport(arg)) =>
        ((\A k \in 1..Len(Sources(arg)) :
              ~(Parses(Sources(arg)[k]) /\ ~SpellsZero(Sources(arg)[k].tag)))
         => /\ res.video.err = ErrSkipFile
            /\ res.visit.file.Flag = FlagSkipped
            /\ res.visit.file.Link = ""
            /\ res.visit.ret = "")

\* a report without streams whose vendor date parses, to the zero time
C10_Witness ==
    /\ pc = "res" /\ HasReport(arg)
    /\ arg.Streams = <<>>
    /\ arg.QtCreationDate = TagTzZero
    /\ res.visit.file.Flag = FlagSkipped

-----------------------------------------------------------------------------
(* Properties of ReadImage *)

\* visit reached the placement step: it called os.MkdirAll
ReachedPlacement(v) == \E k \in 1..Len(v.calls) : v.calls[k].op = "MkdirAll"

\* the EXIF of the image decodes and holds a capture time that is not zero
HasCaptureTime(img) == img.exif /\ img.dt.err = "" /\ img.dt.tm # ZeroTime

\* C11: an image file that cannot be opened is recorded as FlagError; one that
\* opens but has no decodable EXIF, or no capture time in it, or a zero one,
\* is recorded as FlagSkipped; the file reaches the placement step exactly
\* when it opens and its EXIF holds a non-zero capture time
C11_ImageOutcomes ==
    pc = "res" =>
        /\ ~arg.open => res.visit.file.Flag = FlagError
        /\ (arg.open /\ ~HasCaptureTime(arg)) => res.visit.file.Flag = FlagSkipped
        /\ ReachedPlacement(res.visit) <=> (arg.open /\ HasCaptureTime(arg))
        /\ ~ReachedPlacement(res.visit) =>
              /\ res.visit.file.Link = ""
              /\ res.visit.ret = ""

\* an image that opens, whose EXIF decodes and holds the dimensions and a
\* capture time that is zero: skipped
C11_Witness ==
    /\ pc = "res"
    /\ arg.open /\ arg.exif /\ arg.hasX /\ arg.hasY
    /\ arg.dt = DateTime(ZeroTime)
    /\ res.visit.file.Flag = FlagSkipped
    /\ res.image.err = ErrSkipFile

-----------------------------------------------------------------------------
(* Properties of ReadVideo's failures and dimensions *)

\* C12: for a video file, a probe process that cannot be run and a report
\* whose decoding fails otherwise than by end of input both give FlagError;
\* end of input is let through, the (empty) report is looked at, and the
\* record is FlagSkipped; none of the three reaches the placement step
C12_VideoFailures ==
    pc = "res" =>
        /\ ~arg.exec => res.video.err = "exec" /\ res.visit.file.Flag = FlagError
        /\ (arg.exec /\ arg.decode = "bad") =>
              res.video.err = "json" /\ res.visit.file.Flag = FlagError
        /\ (arg.exec /\ arg.decode = "eof") =>
              res.video.err = ErrSkipFile /\ res.visit.file.Flag = FlagSkipped
        /\ (~arg.exec \/ arg.decode # "ok") =>
              /\ ~ReachedPlacement(res.visit)
              /\ res.visit.file.Link = ""
              /\ res.visit.ret = ""

\* the probe ran and printed nothing: the decoder reports end of input and
\* the file is skipped
C12_Witness ==
    /\ pc = "res"
    /\ arg.exec /\ arg.decode = "eof" /\ arg.Streams = <<>>
    /\ res.video.err = ErrSkipFile
    /\ res.visit.file.Flag = FlagSkipped

-----------------------------------------------------------------------------
(* Properties of the derivers *)

Derivers == {"ConstructPath", "ConstructFilename"}

\* C13 as claimed: in every walk ConstructPath and ConstructFilename are
\* called with a non-zero time only, and never for a file whose extractor
\* returned the skip signal or an error
C13_DeriversGetNonZeroTime ==
    \A k \in 1..Len(calls) :
        calls[k].op \in Derivers =>
            /\ ~calls[k].zero
            /\ ExtractorSucceeded(calls[k].i)

TwoDigits(n) == IF n < 10 THEN "0" \o ToString(n) ELSE ToString(n)

FourDigits(n) ==
    IF n < 10 THEN "000" \o ToString(n)
    ELSE IF n < 100 THEN "00" \o ToString(n)
    ELSE IF n < 1000 THEN "0" \o ToString(n)
    ELSE ToString(n)

\* year/MM-Mon/YYYY-MM-DD of a wall clock
DayDirectory(w) ==
    ToString(w.year) \o "/" \o TwoDigits(w.month) \o "-" \o MonthAbbrev[w.month]
        \o "/" \o FourDigits(w.year) \o "-" \o TwoDigits(w.month) \o "-"
        \o TwoDigits(w.day)

SameDay(a, b) ==
    a.w.year = b.w.year /\ a.w.month = b.w.month /\ a.w.day = b.w.day

\* C14: ConstructPath gives year/MM-Mon/YYYY-MM-DD of the timestamp's calendar
\* day: two timestamps on the same calendar day get the same directory
\* whatever their time of day, two on distinct calendar days never do
C14_DirectoryOfCalendarDay ==
    pc = "res" =>
        /\ \A k \in 1..2 : res.dir[k] = DayDirectory(arg[k].w)
        /\ SameDay(arg[1], arg[2]) <=> res.dir[1] = res.dir[2]

\* 23:59:59 at +10:00 and 00:00:00 at -05:00 of one calendar day, a day and
\* more apart, share the directory of that day
C14_Witness ==
    /\ pc = "res"
    /\ arg[1] = [w |-> Clock(2016, 7, 18, 23, 59, 59), off |-> 600]
    /\ arg[2] = [w |-> Clock(2016, 7, 18, 0, 0, 0), off |-> 0 - 300]
    /\ res.dir[1] = "2016/07-Jul/2016-07-18"
    /\ res.dir[2] = "2016/07-Jul/2016-07-18"

\* the byte values of the characters of a file name
CharCode ==
    (" " :> 32) @@ ("+" :> 43) @@ ("-" :> 45) @@ ("." :> 46)
    @@ [c \in {Digit[k] : k \in 1..10} |-> 47 + CHOOSE k \in 1..10 : Digit[k] = c]

\* s sorts before t as byte strings
LexLess(s, t) ==
    \E i \in 1..(Len(t)) :
        /\ \A j \in 1..(i - 1) : j <= Len(s) /\ s[j] = t[j]
        /\ i > Len(s) \/ (i <= Len(s) /\ CharCode[s[i]] < CharCode[t[i]])

\* seconds from the start of the calendar day of the wall clock, on the wall
\* clock and in UTC
WallSecond(st) == st.w.hour * 3600 + st.w.minute * 60 + st.w.second
UtcSecond(st) == WallSecond(st) - st.off * 60

\* C15 as claimed: of two timestamps in the same day directory, whatever
\* their UTC offsets, the one whose file name sorts first is the earlier
\* instant
C15_NameOrderIsTimeOrder ==
    (pc = "res" /\ res.dir[1] = res.dir[2]) =>
        (LexLess(res.chars[1], res.chars[2]) <=> UtcSecond(arg[1]) < UtcSecond(arg[2]))

\* C15 as amended: of two timestamps in the same day directory the one with
\* the earlier wall clock has the name that sorts first; this is the order
\* of the instants when both carry the same UTC offset
C15_NameOrderIsWallClockOrder ==
    (pc = "res" /\ res.dir[1] = res.dir[2]) =>
        /\ \A k \in 1..2 : res.name[k] = Str(res.chars[k])
        /\ WallSecond(arg[1]) < WallSecond(arg[2]) =>
              LexLess(res.chars[1], res.chars[2])
        /\ arg[1].off = arg[2].off =>
              (LexLess(res.chars[1], res.chars[2])
                  <=> UtcSecond(arg[1]) < UtcSecond(arg[2]))

\* 09:59:59 +0000 sorts before 12:29:35 +1000 of the same day, which is the
\* earlier instant by more than seven hours
C15_Witness ==
    /\ pc = "res"
    /\ arg[1] = [w |-> Clock(2016, 7, 18, 9, 59, 59), off |-> 0]
    /\ arg[2] = [w |-> Clock(2016, 7, 18, 12, 29, 35), off |-> 600]
    /\ res.name[1] = "2016-07-18 09.59.59 +0000"
    /\ res.name[2] = "2016-07-18 12.29.35 +1000"
    /\ LexLess(res.chars[1], res.chars[2])
    /\ UtcSecond(arg[2]) < UtcSecond(arg[1])

-----------------------------------------------------------------------------
(* Properties of the video timestamp's zone *)

ParsedSources(probe) == { k \in 1..Len(Sources(probe)) : Parses(Sources(probe)[k]) }

\* the first tag of the chain that parses (there is one)
FirstParsed(probe) ==
    CHOOSE k \in ParsedSources(probe) : \A j \in ParsedSources(probe) : k <= j

\* ReadVideo found a timestamp for the probe
Dated(probe) ==
    /\ HasReport(probe) /\ ParsedSources(probe) # {}
    /\ ~SpellsZero(Sources(probe)[FirstParsed(probe)].tag)

\* C16 as claimed: a timestamp taken from the vendor date is the tag's wall
\* clock at the tag's offset; one taken from a creation_time tag has the
\* wall clock written in the tag, whatever the local offset
C16_TagClockIsLocalClock ==
    (pc = "res" /\ Dated(arg)) =>
        LET tag == Sources(arg)[FirstParsed(arg)].tag
            tm == res.video.meta.Time
        IN /\ res.video.err = ""
           /\ FirstParsed(arg) = 1 => Wall(tm) = tag.w /\ tm.off = tag.off
           /\ FirstParsed(arg) > 1 => Wall(tm) = tag.w

\* C16 as amended: a timestamp taken from the vendor date is the tag's wall
\* clock at the tag's offset; one taken from a creation_time tag is the
\* instant the tag spells in UTC, in the local zone: its wall clock is the
\* tag's moved by the local offset
C16_TagClockIsUtcClock ==
    (pc = "res" /\ Dated(arg)) =>
        LET tag == Sources(arg)[FirstParsed(arg)].tag
            tm == res.video.meta.Time
        IN /\ res.video.err = ""
           /\ FirstParsed(arg) = 1 => Wall(tm) = tag.w /\ tm.off = tag.off
           /\ FirstParsed(arg) > 1 =>
                 /\ tm.off = local
                 /\ Wall(In(tm, 0)) = tag.w
                 /\ Wall(tm) = Wall(In(StampTime([w |-> tag.w, off |-> 0]), local))

\* creation_time 2016-07-18T23:29:36.000000Z read where the local offset is
\* +10:00: the file is dated 2016-07-19 09.29.36 +1000
C16_Witness ==
    /\ pc = "res" /\ local = 600
    /\ arg.exec /\ arg.decode = "ok"
    /\ arg.QtCreationDate = NoTag /\ arg.CreationTime = TagUtc1
    /\ Wall(res.video.meta.Time) = Clock(2016, 7, 19, 9, 29, 36)
    /\ res.visit.file.Name = "2016-07-19 09.29.36 +1000.mp4"

\* the streams of the report that can give the dimensions
Sized(probe) ==
    { k \in 1..Len(probe.Streams) :
        /\ probe.Streams[k].CodecType = "video"
        /\ probe.Streams[k].Width # 0 /\ probe.Streams[k].Height # 0 }

\* C19: ReadVideo returns the width and height of the first stream of the
\* report that is a video stream with both dimensions non-zero, whatever
\* comes before or after it; without such a stream both are zero and the
\* outcome is the one the timestamp alone decides
C19_FirstSizedVideoStream ==
    (pc = "res" /\ HasReport(arg)) =>
        /\ IF Sized(arg) = {}
           THEN res.video.meta.Width = 0 /\ res.video.meta.Height = 0
           ELSE LET k == CHOOSE k \in Sized(arg) : \A j \in Sized(arg) : k <= j
                IN /\ res.video.meta.Width = arg.Streams[k].Width
                   /\ res.video.meta.Height = arg.Streams[k].Height
        /\ res.visit.file.Width = res.video.meta.Width
        /\ res.visit.file.Height = res.video.meta.Height
        /\ res.video.err = (IF Dated(arg) THEN "" ELSE ErrSkipFile)

\* an audio stream with dimensions, then a video stream: the second gives
\* them
C19_Witness ==
    /\ pc = "res" /\ HasReport(arg)
    /\ Len(arg.Streams) = 2
    /\ arg.Streams[1].CodecType = "audio" /\ arg.Streams[1].Width = 4
    /\ arg.Streams[2].CodecType = "video"
    /\ res.video.meta.Width = 6 /\ res.video.meta.Height = 5

-----------------------------------------------------------------------------
(* Properties of the progress markers and the report *)

\* the entries visit ran to its end on: the files whose name has a dot
Completed(i) == tree[i].kind = "file" /\ HasDot(tree[i].name)

\* the k-th of them in traversal order
NthCompleted(k) ==
    CHOOSE i \in Seen :
        Completed(i) /\ Cardinality({ j \in 1..i : Completed(j) }) = k

MarkerOf(flag) ==
    CASE flag = FlagUnknown -> "?" [] flag = FlagError -> "X"
      [] flag = FlagSkipped -> "." [] flag = FlagExists -> "-"
      [] flag = FlagImage -> "i" [] flag = FlagVideo -> "v"

\* what was printed before the closing newline
Markers == IF pc \in {"returned", "reported"} THEN SubSeq(out, 1, Len(out) - 1) ELSE out

\* C17: WalkPath prints one marker for each file it visited, in traversal
\* order, the marker of the Flag in that file's record; it prints one
\* newline, after the last marker, when it returns, with or without an error
C17_OneMarkerPerFile ==
    /\ Len(files) = Cardinality({ i \in Seen : Completed(i) })
    /\ Len(Markers) = Len(files)
    /\ \A k \in 1..Len(files) :
          /\ files[k].Origin = Origin(NthCompleted(k), tree[NthCompleted(k)].name)
          /\ Markers[k] = MarkerOf(files[k].Flag)
    /\ pc \in {"returned", "reported"} =>
          Len(out) = Len(files) + 1 /\ out[Len(out)] = "\n"

\* a walk that ended with an error after a linked image and a file whose
\* link failed
C17_Witness ==
    /\ pc = "returned" /\ walkErr # ""
    /\ out = <<"i", "X", "\n">>

\* C18: after the walk cmdProcess writes to stderr one line, marker, tab,
\* origin, for each record whose Flag is FlagUnknown, FlagError or
\* FlagSkipped, in inventory order, and none for the other records (the
\* walk's own error, if any, is a line before them)
C18_LoggableLines ==
    pc = "reported" =>
        LET lines == IF walkErr # "" THEN Tail(errlog) ELSE errlog
            logged == { k \in 1..Len(files) :
                          files[k].Flag \in {FlagUnknown, FlagError, FlagSkipped} }
        IN /\ Len(errlog) = Cardinality(logged) + (IF walkErr # "" THEN 1 ELSE 0)
           /\ \A k \in logged :
                 lines[Cardinality({ j \in logged : j <= k })]
                     = MarkerOf(files[k].Flag) \o "\t" \o files[k].Origin \o "\n"

\* the report of a walk over a file of no known type and a linked image
C18_Witness ==
    /\ pc = "reported"
    /\ Len(files) = 2
    /\ files[2].Flag = FlagImage
    /\ errlog = <<"?\tin/1/c.txt\n">>

-----------------------------------------------------------------------------
(* The source tree *)

\* a link made by this step: it points at a source file and lies in a
\* directory of the destination
NewLink(d) ==
    /\ \E e \in source : e.kind = "file" /\ links'[d] = e.path
    /\ \E dir \in dirs' : \E i \in 1..Len(tree) :
          /\ tree[i].kind = "file" /\ HasDot(tree[i].name)
          /\ d = dir \o "/" \o ConstructFilename(TimeOf(i)) \o "." \o FileExt(tree[i].name)

\* C20: no step of WalkPath changes the entries under the source root or
\* their content, whatever the outcome for each file; the steps only add
\* directories and hard links to source files under the destination root
C20_SourceIsLeftAlone ==
    [][ /\ source' = source
        /\ source = SourceOf(tree)
        /\ dirs \subseteq dirs'
        /\ \A d \in DOMAIN links : d \in DOMAIN links' /\ links'[d] = links[d]
        /\ \A d \in DOMAIN links' \ DOMAIN links : NewLink(d) ]_vars

\* a walk that linked one file and failed to link the next one has returned,
\* with the source as it was
C20_Witness ==
    /\ pc = "returned"
    /\ Len(tree) = 2
    /\ LinkResult(1, "") /\ LinkResult(2, "link")
    /\ source = SourceOf(tree)
    /\ Cardinality(DOMAIN links) = 1

-----------------------------------------------------------------------------
(* Properties of the inventory *)

\* the entries of the tree that are no directories, in traversal order
NonDirs == { i \in 1..Len(tree) : tree[i].kind # "dir" }

NthNonDir(k) ==
    CHOOSE i \in NonDirs : Cardinality({ j \in NonDirs : j <= i }) = k

\* C21: within one walk no step changes or removes a record of the
\* inventory, it only appends; a walk that returns without an error returns
\* one record for each entry that is no directory, the k-th record being
\* that of the k-th such entry
C21_InventoryIsAppendOnly ==
    [][ /\ run' = run =>
              /\ Len(files') >= Len(files)
              /\ \A k \in 1..Len(files) : files'[k] = files[k]
        /\ (pc' = "returned" /\ walkErr' = "") =>
              /\ Len(files') = Cardinality(NonDirs)
              /\ \A k \in 1..Len(files') :
                    files'[k].Origin = Origin(NthNonDir(k), tree[NthNonDir(k)].name) ]_vars

\* a walk over a directory and a file after it has returned: one record,
\* the file's
C21_Witness ==
    /\ pc = "returned" /\ walkErr = ""
    /\ Len(tree) = 2
    /\ tree[1].kind = "dir" /\ tree[2].kind = "file"
    /\ Len(files) = 1
    /\ files[1].Origin = "in/2/a.jpg"

-----------------------------------------------------------------------------
(* Properties of cmdProcess *)

Troubled == {FlagError, FlagSkipped, FlagUnknown}

\* C22: when WalkPath returned no error and the JSON inventory and the
\* report were written, cmdProcess returns no error and the exit code is 0,
\* whatever the flags of the records
C22_CompletedWalkExitsZero ==
    (pc = "reported" /\ walkErr = "" /\ cmd.jsonWritten /\ cmd.reportWritten) =>
        cmd.err = "" /\ cmd.code = 0

\* a walk whose two files ended FlagError and FlagSkipped, all written
C22_Witness ==
    /\ pc = "reported" /\ walkErr = ""
    /\ cmd.jsonWritten /\ cmd.reportWritten
    /\ Len(files) = 2
    /\ files[1].Flag = FlagError /\ files[2].Flag = FlagSkipped
    /\ cmd.code = 0

SixFlags == {FlagUnknown, FlagError, FlagSkipped, FlagExists, FlagImage, FlagVideo}

SixMarkers == {"?", "X", ".", "-", "i", "v"}

\* C23: every record's Flag is one of the six flags; the six have six
\* different one-character markers; in the JSON inventory the Flag of a
\* record is its marker between double quotes, never empty, never a number
C23_FlagsAreMarkers ==
    /\ \A k \in 1..Len(files) : files[k].Flag \in SixFlags
    /\ \A a \in SixFlags :
          /\ FlagString(a) \in SixMarkers /\ FlagString(a) = MarkerOf(a)
          /\ \A b \in SixFlags : a # b => FlagString(a) # FlagString(b)
    /\ (pc = "reported" /\ cmd.jsonWritten) =>
          /\ Len(cmd.json) = Len(files)
          /\ \A k \in 1..Len(files) :
                /\ cmd.json[k].Flag = "\"" \o MarkerOf(files[k].Flag) \o "\""
                /\ cmd.json[k].Flag \notin {"\"\"", ""}
                /\ cmd.json[k].Flag \notin { ToString(n) : n \in 0..6 }

\* the JSON inventory of a linked image and a file whose link failed
C23_Witness ==
    /\ pc = "reported" /\ cmd.jsonWritten
    /\ Len(cmd.json) = 2
    /\ cmd.json[1].Flag = "\"i\"" /\ cmd.json[2].Flag = "\"X\""

\* C27: when visit returned an error WalkPath returns it with the inventory
\* so far, whose last record is the failing file's, FlagError without a
\* Link; cmdProcess prints the error, then the loggable lines, writes the
\* whole inventory and the report, and does not return the walk's error:
\* with both written it returns none
C27_WalkErrorIsOnlyPrinted ==
    (pc = "reported" /\ walkErr # "") =>
        /\ Len(files) >= 1
        /\ files[Len(files)].Origin = Origin(pos, tree[pos].name)
        /\ files[Len(files)].Flag = FlagError
        /\ files[Len(files)].Link = ""
        /\ errlog[1] = walkErr \o "\n"
        /\ errlog[Len(errlog)] = "X\t" \o Origin(pos, tree[pos].name) \o "\n"
        /\ cmd.err \in {"", "json", "report"}
        /\ cmd.jsonWritten =>
              /\ Len(cmd.json) = Len(files)
              /\ cmd.json[Len(files)].Origin = Origin(pos, tree[pos].name)
        /\ (cmd.jsonWritten /\ cmd.reportWritten) => cmd.err = "" /\ cmd.code = 0

\* a walk stopped at its second file by a refused directory; the inventory
\* and the report are written all the same
C27_Witness ==
    /\ pc = "reported" /\ walkErr = "mkdir"
    /\ Len(files) = 2
    /\ errlog = <<"mkdir\n", "X\tin/2/a.jpg\n">>
    /\ cmd.jsonWritten /\ cmd.reportWritten /\ cmd.err = ""

-----------------------------------------------------------------------------
(* Properties of colliding and doubly matching files *)

RecordOf(i) == CHOOSE k \in 1..Len(files) : k \in RecordsOf(i)

\* C24: of two files of a walk whose derived destination is the same, the
\* first, once linked, keeps its media kind and the destination; the second
\* is FlagExists with the same Link and the same Name, and the destination
\* still refers to the first
C24_FirstLinkWins ==
    \A i \in Seen : \A j \in Seen :
        (/\ i < j
         /\ ExtractorSucceeded(i) /\ ExtractorSucceeded(j)
         /\ LinkOf(i) = LinkOf(j)
         /\ LinkResult(i, "")) =>
            /\ RecordsOf(i) # {} /\ RecordsOf(j) # {}
            /\ files[RecordOf(i)].Flag = KindOf(i)
            /\ files[RecordOf(i)].Link = LinkOf(i)
            /\ LinkResult(j, "exist")
            /\ files[RecordOf(j)].Flag = FlagExists
            /\ files[RecordOf(j)].Link = files[RecordOf(i)].Link
            /\ files[RecordOf(j)].Name = files[RecordOf(i)].Name
            /\ links[LinkOf(i)] = Origin(i, tree[i].name)

\* two images taken in the same second: the second finds the place taken
C24_Witness ==
    /\ pos = 2 /\ Len(files) = 2
    /\ tree[1].img.dt = DateTime(WT1) /\ tree[2].img.dt = DateTime(WT1)
    /\ files[1].Flag = FlagImage /\ files[2].Flag = FlagExists
    /\ files[1].Link = files[2].Link
    /\ links[files[2].Link] = "in/1/a.jpg"

MatchesBoth(name) ==
    ContainsAfterChar(name, ImgWords) /\ ContainsAfterChar(name, VidWords)

\* C25: a file whose name matches both patterns is handed to ReadImage and
\* never to ReadVideo; it is FlagImage when it gets linked and never
\* FlagVideo
C25_BothPatternsIsImage ==
    \A i \in Seen :
        (tree[i].kind = "file" /\ HasDot(tree[i].name) /\ MatchesBoth(tree[i].name)) =>
            /\ \E k \in CallsOf(i) : calls[k].op = "ReadImage"
            /\ \A k \in CallsOf(i) : calls[k].op # "ReadVideo"
            /\ RecordsOf(i) # {}
            /\ files[RecordOf(i)].Flag # FlagVideo
            /\ LinkResult(i, "") => files[RecordOf(i)].Flag = FlagImage

\* x.JPG.mov, linked as an image
C25_Witness ==
    \E i \in Seen :
        /\ tree[i].name = <<"x", ".", "J", "P", "G", ".", "m", "o", "v">>
        /\ LinkResult(i, "")
        /\ files[RecordOf(i)].Flag = FlagImage
        /\ files[RecordOf(i)].Ext = "mov"

\* C26: WalkPath never returns ErrNoPath: the directory derived is never
\* empty, for the zero time neither, and every FlagError comes from an
\* extractor's error or from a failed MkdirAll or Link
C26_NoPathNeverHappens ==
    /\ walkErr # ErrNoPath
    /\ \A i \in Seen :
          (tree[i].kind = "file" /\ HasDot(tree[i].name)
             /\ Classify(tree[i].name) # "unknown") =>
              /\ ConstructPath(TimeOf(i)) # ""
              /\ ~ExtractorSucceeded(i) =>
                    ConstructPath(ZeroTime) = "1/01-Jan/0001-01-01"
              /\ files[RecordOf(i)].Flag = FlagError =>
                    \/ \E err \in {"open", "exec", "json"} : ExtractorFailed(i, err)
                    \/ PlacementFailed(i)

\* a walk that derived a directory from the zero time and from a capture
\* time has returned without an error
C26_Witness ==
    /\ pc = "returned" /\ walkErr = ""
    /\ \E k \in 1..Len(calls) : calls[k].op = "ConstructPath" /\ calls[k].zero
    /\ \E k \in 1..Len(calls) : calls[k].op = "ConstructPath" /\ ~calls[k].zero

\* the dimensions the extractor of the i-th entry had found when it returned
FoundDims(i) ==
    IF ImgMatch(tree[i].name)
    THEN LET img == tree[i].img
             ex == IF img.exif /\ img.hasX /\ img.hasY THEN <<img.x, img.y>>
                   ELSE <<0, 0>>
         IN IF ~img.open THEN <<0, 0>>
            ELSE IF (ex[1] = 0 \/ ex[2] = 0) /\ img.cfg.ok THEN <<img.cfg.w, img.cfg.h>>
            ELSE ex
    ELSE LET probe == tree[i].vid
         IN IF ~HasReport(probe) \/ Sized(probe) = {} THEN <<0, 0>>
            ELSE LET k == CHOOSE k \in Sized(probe) : \A j \in Sized(probe) : k <= j
                 IN <<probe.Streams[k].Width, probe.Streams[k].Height>>

\* C28: the record of a file whose extractor returned the skip signal or an
\* error does not keep the file's name: its Name is the name derived from
\* the zero time with the lower-cased extension, and its Width and Height
\* are those the extractor had found
C28_FailedRecordIsRenamed ==
    \A i \in Seen : \A err \in {ErrSkipFile, "open", "exec", "json"} :
        ExtractorFailed(i, err) =>
            /\ RecordsOf(i) # {}
            /\ files[RecordOf(i)].Flag \in {FlagSkipped, FlagError}
            /\ files[RecordOf(i)].Name
                  = "0001-01-01 00.00.00 +0000." \o FileExt(tree[i].name)
            /\ files[RecordOf(i)].Name # Str(tree[i].name)
            /\ <<files[RecordOf(i)].Width, files[RecordOf(i)].Height>> = FoundDims(i)

\* a skipped video with the dimensions of its stream
C28_Witness ==
    \E k \in 1..Len(files) :
        /\ files[k].Flag = FlagSkipped
        /\ files[k].Name = "0001-01-01 00.00.00 +0000.mp4"
        /\ files[k].Width = 4 /\ files[k].Height = 3

Fresh == { k \in 1..Len(files) : files[k].Flag \in {FlagImage, FlagVideo} }

\* C29: in a walk into an empty destination the records with FlagImage or
\* FlagVideo have pairwise different Links, there are as many links under
\* the destination as such records, and the Link of a FlagExists record is
\* that of an earlier one of them
C29_OneLinkPerPlacedRecord ==
    run = 1 =>
        /\ \A a \in Fresh : \A b \in Fresh : a # b => files[a].Link # files[b].Link
        /\ Cardinality(DOMAIN links) = Cardinality(Fresh)
        /\ \A k \in 1..Len(files) :
              files[k].Flag = FlagExists =>
                  \E j \in Fresh : j < k /\ files[j].Link = files[k].Link

\* two files linked at two places
C29_Witness ==
    /\ run = 1 /\ pc = "returned"
    /\ Cardinality(Fresh) = 2
    /\ Cardinality(DOMAIN links) = 2
    /\ files[1].Flag = FlagVideo /\ files[2].Flag = FlagImage

====
